---- MODULE Spec2Model ----
(***************************************************************************)
(* A model of fsstat.py: the Fat class that parses a FAT32 volume image    *)
(* (boot sector, FAT cluster chains, cluster data, directory entries) and  *)
(* the recursive directory walk parse_dir driven by info().                *)
(*                                                                         *)
(* Bytes are integers 0..255, a bytes object is a sequence of them, and    *)
(* the image file is the sequence of its bytes.                            *)
(***************************************************************************)
EXTENDS Integers, Sequences, FiniteSets, TLC

VARIABLES
    img,      \* the image self.file is open on: [id |-> i] is Images[i], and
              \* [id |-> 0, spc |-> n, ents |-> e] is ChainImage(n, e)
    boot,     \* self.boot
    pc,       \* position of the run: new, ready, walk, print, done, error, hang
    stack,    \* the active parse_dir calls, outermost first
    all_files,\* info(): the list parse_dir returned
    printed,  \* info(): the directory-entry records printed so far
    err,      \* the exception that ended the run ("" while there is none)
    cpc,      \* position inside one _get_sectors call: idle, loop, returned, raised
    number,   \* _get_sectors: its argument
    entry_value,      \* _get_sectors: the FAT entry last looked up
    list_of_sectors,  \* _get_sectors: the list built so far
    lookups,          \* _get_sectors: the byte offsets of self.fat looked up so far
    call              \* one call of _retrieve_data or _get_content and its outcome

vars == <<img, boot, pc, stack, all_files, printed, err,
          cpc, number, entry_value, list_of_sectors, lookups, call>>
runVars == <<pc, stack, all_files, printed, err>>
chainVars == <<cpc, number, entry_value, list_of_sectors, lookups>>
unitVars == <<cpc, number, entry_value, list_of_sectors, lookups, call>>

Min(a, b) == IF a < b THEN a ELSE b
Max(a, b) == IF a > b THEN a ELSE b

(***************************************************************************)
(* Python values                                                           *)
(***************************************************************************)
\* data[a:b] for 0 <= a, 0 <= b: the slice clamps to the length of data.
Slice(data, a, b) == SubSeq(data, Min(a, Len(data)) + 1, Min(b, Len(data)))

\* list(range(a, b))
Range(a, b) == [i \in 1..Max(0, b - a) |-> a + i - 1]

RECURSIVE unpack(_)
\* int.from_bytes(data, "little", signed=False); the empty bytes give 0.
unpack(data) == IF data = <<>> THEN 0 ELSE Head(data) + 256 * unpack(Tail(data))

\* The outcome of a call: it returns v, raises v, or never returns.
Ok(v) == [k |-> "ok", v |-> v]
Raise(e) == [k |-> "raise", v |-> e]
Hang == [k |-> "hang", v |-> ""]

\* Optional[str]
None == <<>>
Some(x) == <<x>>

(***************************************************************************)
(* The image file: the sequence of its bytes                               *)
(***************************************************************************)
\* self.file.seek(off); self.file.read(n) for off >= 0, n >= 0: a read that
\* reaches the end of the file returns the bytes there are.
read_at(f, off, n) == SubSeq(f, Min(off, Len(f)) + 1, Min(off + n, Len(f)))

\* 0x0FFFFFF8: a FAT entry above it ends the chain.
ChainLimit == 268435448

(***************************************************************************)
(* Building images: the inputs of the run                                  *)
(***************************************************************************)
Zeros(n) == [i \in 1..n |-> 0]
Pad(s, n, b) == [i \in 1..n |-> IF i <= Len(s) THEN s[i] ELSE b]

\* v as n little-endian bytes
Pack(v, n) == [i \in 1..n |-> (v \div (256 ^ (i - 1))) % 256]

\* An 8.3 name field: base and extension padded with spaces.
Name83(base, ext) == Pad(base, 8, 32) \o Pad(ext, 3, 32)

\* One 32-byte directory entry.
DirEnt(name, attr, cluster, size) ==
    name \o <<attr>> \o Zeros(8) \o Pack(cluster \div 65536, 2) \o Zeros(4)
         \o Pack(cluster % 65536, 2) \o Pack(size, 4)

RECURSIVE Flatten(_)
Flatten(ss) == IF ss = <<>> THEN <<>> ELSE Head(ss) \o Flatten(Tail(ss))

\* The boot sector's fields at their offsets (11, 13, 14, 16, 32, 36, 44).
BootArea(g) ==
    Zeros(11) \o Pack(g.bps, 2) \o Pack(g.spc, 1) \o Pack(g.rs, 2) \o Pack(g.nf, 1)
        \o Zeros(15) \o Pack(g.ts, 4) \o Pack(g.spf, 4) \o Zeros(4) \o Pack(g.root, 4)

\* FAT copy 0: ents[c + 1] is the entry of cluster c, the rest of the table is 0.
FatArea(g, ents) ==
    Flatten([c \in 1..((g.spf * g.bps) \div 4) |->
                Pack(IF c <= Len(ents) THEN ents[c] ELSE 0, 4)])

\* The data region: clusters 2, 3, ... each padded to the cluster size.
DataArea(g, clusters) ==
    Flatten([c \in 1..Len(clusters) |-> Pad(clusters[c], g.bps * g.spc, 0)])

\* The image of a description d, cut to d.len bytes.
Build(d) ==
    LET whole == Pad(BootArea(d.g), d.g.rs * d.g.bps, 0) \o FatArea(d.g, d.ents)
                     \o DataArea(d.g, d.clusters)
    IN  SubSeq(whole, 1, Min(d.len, Len(whole)))

(***************************************************************************)
(* The images the run is checked on.  Geometry: 8-byte sectors, 8 sectors  *)
(* per cluster (two 32-byte directory entries), 6 reserved sectors, one    *)
(* FAT of 40 sectors, so the data region starts at sector 46 and clusters  *)
(* 2..8 fill sectors 46..101.                                              *)
(***************************************************************************)

\* 0x0FFFFFFF, the end-of-chain mark the images use
EndOfChain == ChainLimit + 7

E_END    == Zeros(32)
E_SUB    == DirEnt(Name83(<<83, 85, 66>>, <<>>), 16, 4, 0)              \* SUB, dir
E_ATXT   == DirEnt(Name83(<<65>>, <<84, 88, 84>>), 32, 7, 5)            \* A.TXT
E_OLD    == DirEnt(Name83(<<229, 76, 68>>, <<84, 88, 84>>), 32, 8, 3)   \* deleted
E_DOT    == DirEnt(Name83(<<46>>, <<>>), 16, 4, 0)                      \* .
E_DOTDOT == DirEnt(Name83(<<46, 46>>, <<>>), 16, 0, 0)                  \* ..
E_DEEP   == DirEnt(Name83(<<68, 69, 69, 80>>, <<>>), 16, 6, 0)          \* DEEP, dir
E_CTXT   == DirEnt(Name83(<<67>>, <<84, 88, 84>>), 32, 7, 2)            \* C.TXT
E_VOL    == DirEnt(Name83(<<86, 79, 76>>, <<>>), 8, 0, 0)               \* volume label
E_LFN    == DirEnt(Name83(<<65, 0, 66>>, <<>>), 15, 0, 0)               \* long name part
E_EMPTY  == DirEnt(Name83(<<69>>, <<84, 88, 84>>), 32, 0, 0)            \* E.TXT, no content
E_BIG    == DirEnt(Name83(<<67>>, <<84, 88, 84>>), 32, 500, 2)          \* beyond the volume
E_NINE   == DirEnt(Name83(<<67>>, <<84, 88, 84>>), 32, 9, 2)            \* beyond the FAT check
E_LOOP   == DirEnt(Name83(<<76, 79, 79, 80>>, <<>>), 16, 2, 0)          \* LOOP, dir -> root
E_DA     == DirEnt(Name83(<<68, 65>>, <<>>), 16, 3, 0)                  \* DA, dir
E_DB     == DirEnt(Name83(<<68, 66>>, <<>>), 16, 4, 0)                  \* DB, dir
E_DC     == DirEnt(Name83(<<68, 67>>, <<>>), 16, 5, 0)                  \* DC, dir
E_DD     == DirEnt(Name83(<<68, 68>>, <<>>), 16, 6, 0)                  \* DD, dir

\* Scenario A with one more level: / holds SUB, A.TXT and a deleted file,
\* /SUB holds ., .. and DEEP, /SUB/DEEP holds C.TXT.
Base ==
    [g |-> [bps |-> 8, spc |-> 8, rs |-> 6, nf |-> 1, ts |-> 102, spf |-> 40, root |-> 2],
     ents |-> <<268435448, EndOfChain, 3, EndOfChain, 5, EndOfChain, EndOfChain,
                EndOfChain, 0>>,
     clusters |-> << E_SUB \o E_ATXT, E_OLD \o E_END,
                     E_DOT \o E_DOTDOT, E_DEEP \o E_END,
                     E_CTXT \o E_END,
                     <<104, 101, 108, 108, 111, 33, 63, 33>>,
                     <<98, 121, 101>> >>,
     len |-> 816]

Descriptions ==
    << Base,
       \* volume label, long-name part, a file with no content
       [Base EXCEPT !.clusters[1] = E_VOL \o E_LFN, !.clusters[2] = E_EMPTY \o E_END],
       \* a content cluster beyond total_sectors / sectors_per_cluster, two levels down
       [Base EXCEPT !.clusters[5] = E_BIG \o E_END],
       \* a content cluster that fails the assert of _get_sectors, two levels down
       [Base EXCEPT !.clusters[5] = E_NINE \o E_END],
       \* total_sectors = 0
       [Base EXCEPT !.g.ts = 0],
       \* sectors_per_fat = 0
       [Base EXCEPT !.g.spf = 0],
       \* a root directory with no terminator entry
       [Base EXCEPT !.ents[3] = EndOfChain, !.clusters[1] = E_ATXT \o E_ATXT],
       \* the image cut before cluster 7
       [Base EXCEPT !.len = 688],
       \* /SUB holds a directory entry that points back to the root
       [Base EXCEPT !.clusters[4] = E_LOOP \o E_END],
       \* the root's FAT chain is a cycle 2 -> 3 -> 2
       [Base EXCEPT !.ents[4] = 2],
       \* the root cluster is unallocated
       [Base EXCEPT !.ents[3] = 0],
       \* total_sectors = 0 and no entry with a content cluster
       [Base EXCEPT !.g.ts = 0, !.clusters[1] = E_VOL \o E_LFN,
                    !.clusters[2] = E_EMPTY \o E_END],
       \* a content cluster beyond the volume in the root, after /SUB and A.TXT
       [Base EXCEPT !.clusters[2] = E_BIG \o E_END],
       \* the cycle 2 -> 3 -> 2 with sectors_per_cluster = 0
       [Base EXCEPT !.g.spc = 0, !.ents[4] = 2],
       \* directories nested four deep: /DA/DB/DC/DD holds C.TXT
       [Base EXCEPT !.ents[3] = EndOfChain, !.ents[5] = EndOfChain,
                    !.clusters[1] = E_DA \o E_END, !.clusters[2] = E_DB \o E_END,
                    !.clusters[3] = E_DC \o E_END, !.clusters[4] = E_DD \o E_END] >>

Images == [i \in 1..Len(Descriptions) |-> Build(Descriptions[i])]

\* The images _get_sectors is checked on: 4-byte sectors, 12 reserved sectors,
\* one FAT of 20 sectors (20 entries) whose first entries are ents, and the
\* three clusters 2..4 of spc sectors.  Clusters 0..3 pass the assert of
\* _get_sectors.
ChainImage(spc, ents) ==
    Build([g |-> [bps |-> 4, spc |-> spc, rs |-> 12, nf |-> 1, ts |-> 32 + 3 * spc,
                  spf |-> 20, root |-> 2],
           ents |-> ents,
           clusters |-> <<<<>>, <<>>, <<>>>>,
           len |-> 128 + 12 * spc])

\* self.file
file == IF img.id > 0 THEN Images[img.id] ELSE ChainImage(img.spc, img.ents)

(***************************************************************************)
(* class Fat                                                               *)
(***************************************************************************)
\* _parse_reserved_sector: the read fields and the fields derived from them.
Geometry(bps, spc, rs, nf, ts, spf, root) ==
    [bytes_per_sector |-> bps, sectors_per_cluster |-> spc, reserved_sectors |-> rs,
     number_of_fats |-> nf, total_sectors |-> ts, sectors_per_fat |-> spf,
     root_dir_first_cluster |-> root,
     bytes_per_cluster |-> bps * spc,
     fat0_sector_start |-> rs,
     fat0_sector_end |-> rs + spf - 1,
     data_start |-> rs + spf * nf,
     data_end |-> ts - 1]

\* _parse_reserved_sector: self.boot.  No field is validated.
parse_boot(f) ==
    Geometry(unpack(read_at(f, 11, 2)), unpack(read_at(f, 13, 1)),
             unpack(read_at(f, 14, 2)), unpack(read_at(f, 16, 1)),
             unpack(read_at(f, 32, 4)), unpack(read_at(f, 36, 4)),
             unpack(read_at(f, 44, 4)))

\* _parse_reserved_sector: self.fat, FAT copy 0 read in one piece.
load_fat(f, b) ==
    read_at(f, b.fat0_sector_start * b.bytes_per_sector,
            b.sectors_per_fat * b.bytes_per_sector)

\* self.fat: read once by the constructor and never written afterwards.
fat == load_fat(file, boot)

to_sector(cluster) == (cluster - 2) * boot.sectors_per_cluster + boot.data_start

end_sector(cluster) == to_sector(cluster) + boot.sectors_per_cluster - 1

\* The assert of _get_sectors: the entry's byte offset against sectors_per_fat.
entry_check(n) == 0 < (n * 4 + 4) /\ (n * 4 + 4) < boot.sectors_per_fat

\* unpack(self.fat[byte_offset : byte_offset + 4])
fat_entry(byte_offset) == unpack(Slice(fat, byte_offset, byte_offset + 4))

\* list(range(self._to_sector(c), self._end_sector(c) + 1))
cluster_sectors(c) == Range(to_sector(c), end_sector(c) + 1)


\* The while loop of _get_sectors on a chain that comes back to an entry it
\* has followed.  Every iteration appends sectors_per_cluster sector numbers:
\* the list grows until the memory is used up and list_of_sectors += ...
\* raises MemoryError; with sectors_per_cluster = 0 nothing is appended and
\* the loop runs for ever.
cycle == IF boot.sectors_per_cluster > 0 THEN Raise("MemoryError") ELSE Hang

RECURSIVE follow(_, _, _)
\* The while loop of _get_sectors.  The next entry depends on the current one
\* alone, so the loop never reaches an end-of-chain entry exactly when an
\* entry value comes back; seen holds the values followed so far.
follow(ev, acc, seen) ==
    IF ev > ChainLimit THEN Ok(acc)
    ELSE IF ev \in seen THEN cycle
    ELSE follow(fat_entry(ev * 4), acc \o cluster_sectors(ev), seen \cup {ev})

\* _get_sectors after its assert: the first entry ev decides.
chain_from(n, ev) ==
    IF ev = 0 THEN Ok(<<>>) ELSE follow(ev, cluster_sectors(n), {})

\* _get_sectors(number), as one call
get_sectors(n) ==
    IF ~entry_check(n) THEN Raise("AssertionError") ELSE chain_from(n, fat_entry(n * 4))

\* The loop of _retrieve_data over sector_list, the outcome r of _get_sectors:
\* the sectors are read one at a time and concatenated.  A seek to a negative
\* offset raises OSError.
read_sectors(r) ==
    IF r.k # "ok" THEN r
    ELSE IF \E i \in 1..Len(r.v) : r.v[i] * boot.bytes_per_sector < 0
         THEN Raise("OSError")
    ELSE Ok(Flatten([i \in 1..Len(r.v) |->
                        read_at(file, r.v[i] * boot.bytes_per_sector,
                                boot.bytes_per_sector)]))

\* _retrieve_data(cluster, ignore_unallocated).  The body never reads
\* ignore_unallocated.
retrieve_data(cluster, ignore_unallocated) == read_sectors(get_sectors(cluster))

\* The assert of _get_first_cluster: at most total_sectors / sectors_per_cluster
\* (a true division).
cluster_check(content_cluster) ==
    IF boot.sectors_per_cluster = 0 THEN Raise("ZeroDivisionError")
    ELSE IF content_cluster * boot.sectors_per_cluster > boot.total_sectors
         THEN Raise("AssertionError")
    ELSE Ok(content_cluster)

\* _get_first_cluster(entry): (high16 << 16) + low16
get_first_cluster(entry) ==
    cluster_check(unpack(Slice(entry, 20, 22)) * 65536 + unpack(Slice(entry, 26, 28)))

\* _get_content once data, the outcome of _retrieve_data(cluster, True), is
\* there.  str() of a bytes object is its repr, which is one-to-one: the
\* strings are modelled by the bytes.
content_of(cluster, filesize, min_size, data) ==
    IF data.k # "ok" THEN data
    ELSE IF data.v # <<>>
         THEN Ok(<<Slice(data.v, 0, min_size), Some(Slice(data.v, filesize, filesize + 32))>>)
    ELSE IF to_sector(cluster) * boot.bytes_per_sector < 0 THEN Raise("OSError")
    ELSE Ok(<<read_at(file, to_sector(cluster) * boot.bytes_per_sector, min_size), None>>)

\* _get_content(cluster, filesize): <<content, slack>>
get_content(cluster, filesize) ==
    content_of(cluster, filesize, Min(128, filesize), retrieve_data(cluster, TRUE))

(***************************************************************************)
(* hw4utils, which is not part of the source: its two functions as the     *)
(* specification describes them (section 6) and as parse_dir uses them.    *)
(***************************************************************************)
\* get_entry_type(type_tag_byte): hex(0) for the terminator tag.
get_entry_type(tag) ==
    CASE tag = 0 -> "0x0"
      [] tag = 15 -> "lfn"
      [] tag = 8 -> "vol"
      [] tag = 16 -> "dir"
      [] OTHER -> "other"

Letters == <<"A", "B", "C", "D", "E", "F", "G", "H", "I", "J", "K", "L", "M",
             "N", "O", "P", "Q", "R", "S", "T", "U", "V", "W", "X", "Y", "Z">>
Chr(b) == IF b \in 65..90 THEN Letters[b - 64] ELSE IF b = 46 THEN "." ELSE "?"

RECURSIVE Text(_)
Text(bs) == IF bs = <<>> THEN "" ELSE Chr(Head(bs)) \o Text(Tail(bs))

RECURSIVE RStrip(_)
RStrip(bs) == IF bs # <<>> /\ bs[Len(bs)] = 32 THEN RStrip(SubSeq(bs, 1, Len(bs) - 1)) ELSE bs

\* parse_name(raw_32_byte_entry): the 8.3 display name.
parse_name(entry_data) ==
    LET base == RStrip(Slice(entry_data, 0, 8))
        ext == RStrip(Slice(entry_data, 8, 11))
    IN  IF ext = <<>> THEN Text(base) ELSE Text(base) \o "." \o Text(ext)

(***************************************************************************)
(* parse_dir: one active call is a frame, one loop iteration is a step     *)
(***************************************************************************)
\* The interpreter's recursion limit (sys.getrecursionlimit(), 1000 unless it
\* is set; fsstat.py does not set it): the most frames on its stack.
RecursionLimit == 1000
\* The most frames on the interpreter's stack that are not calls of parse_dir:
\* the callers of the outermost parse_dir (module, main, info and what runs
\* the module) and the calls one iteration makes below it (_get_content,
\* _retrieve_data, _get_sectors, _to_sector, hw4utils).  How many there are
\* depends on how the program is run.
OtherFrames == 16

\* The locals of a call parse_dir(cluster, parent).  pending holds the entry
\* whose recursive call is running.  The loop flags is_dir and is_unallocated
\* are left out: is_unallocated is never set, so the condition is always true.
NewFrame(cluster, parent) ==
    [cluster |-> cluster, parent |-> parent, entry_num |-> 0,
     directory_entries |-> <<>>, pending |-> <<>>]

\* The parent passed to the recursive call for the directory entry name.
child_parent(parent, name) == "/" \o name

\* The branch a decoded entry takes.
is_subdir(entry_type, name) == entry_type = "dir" /\ name # "." /\ name # ".."
is_file(entry_type) == entry_type # "lfn" /\ entry_type # "vol" /\ entry_type # "dir"

\* The keys of a file-like entry with a content cluster: content is the
\* outcome of _get_content.
file_keys(content_cluster, filesize, content) ==
    IF content.k # "ok" THEN content
    ELSE Ok([content_cluster |-> content_cluster,
             filesize |-> filesize,
             content_sectors |-> get_sectors(content_cluster).v,
             content |-> content.v[1],
             slack |-> content.v[2]])

\* The keys a file-like entry gets once its content cluster is decoded.
file_fields(filesize, first) ==
    IF first.k # "ok" THEN first
    ELSE IF first.v = 0 THEN Ok("content_cluster" :> 0)
    ELSE file_keys(first.v, filesize, get_content(first.v, filesize))

\* The key a directory entry that is recursed into gets.
dir_fields(first) ==
    IF first.k # "ok" THEN first ELSE Ok("content_cluster" :> first.v)

\* The branches of one iteration for the entry with the common keys in entry.
branch(entry, entry_data) ==
    IF entry.entry_type = "0x0" THEN [k |-> "break", v |-> <<>>]
    ELSE IF is_subdir(entry.entry_type, entry.name)
         THEN [k |-> "descend", v |-> entry, more |-> dir_fields(get_first_cluster(entry_data))]
    ELSE IF is_file(entry.entry_type)
         THEN [k |-> "append", v |-> entry,
               more |-> file_fields(unpack(Slice(entry_data, 28, 32)),
                                    get_first_cluster(entry_data))]
    ELSE [k |-> "append", v |-> entry, more |-> Ok(<<>>)]

\* A branch's outcome: its exception, or the entry with the keys it added.
settle(o) ==
    IF o.k = "break" THEN o
    ELSE IF o.more.k # "ok" THEN o.more
    ELSE [k |-> o.k, v |-> o.v @@ o.more.v]

\* The 32 bytes of the entry, decoded.  entry_data[11] raises IndexError when
\* the slice is too short.
decode(fr, entry_data, dir_sectors) ==
    IF Len(entry_data) < 12 THEN Raise("IndexError")
    ELSE settle(branch([parent |-> fr.parent, dir_cluster |-> fr.cluster,
                        entry_num |-> fr.entry_num, dir_sectors |-> dir_sectors,
                        entry_type |-> get_entry_type(entry_data[12]),
                        name |-> parse_name(entry_data),
                        deleted |-> (entry_data[1] = 229)],
                       entry_data))

\* One iteration once data, the outcome of _retrieve_data(cluster, True), is there.
scan_data(fr, data) ==
    IF data.k # "ok" THEN data
    ELSE decode(fr, Slice(data.v, 32 * fr.entry_num, 32 * fr.entry_num + 32),
                get_sectors(fr.cluster).v)

\* One iteration of the loop of parse_dir in frame fr, up to the point where
\* it breaks, raises, recurses or reaches entry_num += 1.
scan(fr) == scan_data(fr, retrieve_data(fr.cluster, TRUE))

\* entry_num += 1; directory_entries.append(entry)
advance(fr, entry) ==
    [fr EXCEPT !.entry_num = @ + 1, !.directory_entries = Append(@, entry)]

\* A variant of resume: the entry is appended before the records of its
\* directory (pre-order).
resume_preorder(fr, sub) ==
    [fr EXCEPT !.entry_num = @ + 1,
               !.directory_entries = Append(@, fr.pending[1]) \o sub,
               !.pending = <<>>]

\* A variant of resume: after the recursion the entry is appended but
\* entry_num is not increased.
resume_same_entry(fr, sub) ==
    [fr EXCEPT !.directory_entries = Append(@ \o sub, fr.pending[1]), !.pending = <<>>]

\* The caller after its recursive call returned sub:
\* directory_entries += sub, then the entry itself is appended.
resume(fr, sub) ==
    advance([fr EXCEPT !.directory_entries = @ \o sub, !.pending = <<>>], fr.pending[1])

\* A variant of uncaught: info() catches the exception and prints what the
\* active calls had collected.
caught_partial(e) ==
    [pc |-> "print", err |-> e,
     all_files |-> Flatten([i \in 1..Len(stack) |-> stack[i].directory_entries])]

\* An exception leaves parse_dir and info: nothing catches it.
uncaught(e) == [pc |-> "error", err |-> e, all_files |-> <<>>]

top == stack[Len(stack)]

(***************************************************************************)
(* The run: Fat(filename), then info()                                     *)
(***************************************************************************)
InitRun ==
    /\ pc = "new"
    /\ boot = <<>>
    /\ stack = <<>>
    /\ all_files = <<>>
    /\ printed = <<>>
    /\ err = ""

InitChainIdle ==
    /\ cpc = "idle"
    /\ number = 0
    /\ entry_value = 0
    /\ list_of_sectors = <<>>
    /\ lookups = <<>>
    /\ call = [fn |-> "none"]

Init ==
    /\ img \in {[id |-> i] : i \in 1..Len(Images)}
    /\ InitRun
    /\ InitChainIdle

\* Fat.__init__
Construct ==
    /\ pc = "new"
    /\ boot' = parse_boot(file)
    /\ pc' = "ready"
    /\ UNCHANGED <<img, stack, all_files, printed, err, unitVars>>

\* info(): the boot dictionary is printed and parse_dir(root) is called.
Info ==
    /\ pc = "ready"
    /\ stack' = <<NewFrame(boot.root_dir_first_cluster, "")>>
    /\ pc' = "walk"
    /\ UNCHANGED <<img, boot, all_files, printed, err, unitVars>>

\* An entry that is not recursed into is appended.
Appended(o) ==
    /\ o.k = "append"
    /\ stack' = [stack EXCEPT ![Len(stack)] = advance(top, o.v)]
    /\ UNCHANGED <<pc, all_files, err>>

\* A directory entry: parse_dir(content_cluster, "/" + name) is called.
Descended(o) ==
    /\ o.k = "descend"
    /\ Len(stack) < RecursionLimit
    /\ stack' = Append([stack EXCEPT ![Len(stack)].pending = <<o.v>>],
                       NewFrame(o.v.content_cluster, child_parent(top.parent, o.v.name)))
    /\ UNCHANGED <<pc, all_files, err>>

\* The terminator entry in a recursive call: the call returns to its caller.
Returned(o) ==
    /\ o.k = "break"
    /\ Len(stack) > 1
    /\ stack' = [SubSeq(stack, 1, Len(stack) - 1) EXCEPT
                    ![Len(stack) - 1] = resume(@, top.directory_entries)]
    /\ UNCHANGED <<pc, all_files, err>>

\* The terminator entry in the outermost call: info() has the list.
ReturnedRoot(o) ==
    /\ o.k = "break"
    /\ Len(stack) = 1
    /\ all_files' = top.directory_entries
    /\ stack' = <<>>
    /\ pc' = "print"
    /\ UNCHANGED err

\* The exceptions that can end the iteration with outcome o: the one it
\* raises (an assert fails, an index is out of range, the memory is used up),
\* and RecursionError once a call of the iteration can be the frame that
\* passes the recursion limit.
raises(o) ==
    (IF o.k = "raise" THEN {o.v} ELSE {})
        \cup (IF Len(stack) + OtherFrames >= RecursionLimit THEN {"RecursionError"} ELSE {})

\* An exception ends the iteration.  stack keeps the frames the exception
\* passed through, as they were.
Raised(o) ==
    /\ \E e \in raises(o) :
          /\ err' = uncaught(e).err
          /\ all_files' = uncaught(e).all_files
          /\ pc' = uncaught(e).pc
    /\ UNCHANGED stack

\* A FAT chain that never ends and holds no sectors: _get_sectors does not
\* return.
Hung(o) ==
    /\ o.k = "hang"
    /\ pc' = "hang"
    /\ UNCHANGED <<stack, all_files, err>>

ScanAppend ==
    /\ pc = "walk"
    /\ Appended(scan(top))
    /\ UNCHANGED <<img, boot, printed, unitVars>>

ScanDescend ==
    /\ pc = "walk"
    /\ Descended(scan(top))
    /\ UNCHANGED <<img, boot, printed, unitVars>>

ScanReturn ==
    /\ pc = "walk"
    /\ Returned(scan(top))
    /\ UNCHANGED <<img, boot, printed, unitVars>>

ScanReturnRoot ==
    /\ pc = "walk"
    /\ ReturnedRoot(scan(top))
    /\ UNCHANGED <<img, boot, printed, unitVars>>

ScanRaise ==
    /\ pc = "walk"
    /\ Raised(scan(top))
    /\ UNCHANGED <<img, boot, printed, unitVars>>

ScanHang ==
    /\ pc = "walk"
    /\ Hung(scan(top))
    /\ UNCHANGED <<img, boot, printed, unitVars>>

\* info(): for file in all_files: print(json.dumps(file))
PrintRecord ==
    /\ pc = "print"
    /\ Len(printed) < Len(all_files)
    /\ printed' = Append(printed, all_files[Len(printed) + 1])
    /\ UNCHANGED <<img, boot, pc, stack, all_files, err, unitVars>>

Finish ==
    /\ pc = "print"
    /\ Len(printed) = Len(all_files)
    /\ pc' = "done"
    /\ UNCHANGED <<img, boot, stack, all_files, printed, err, unitVars>>

Next ==
    \/ Construct
    \/ Info
    \/ ScanAppend
    \/ ScanDescend
    \/ ScanReturn
    \/ ScanReturnRoot
    \/ ScanRaise
    \/ ScanHang
    \/ PrintRecord
    \/ Finish

Spec == Init /\ [][Next]_vars

(***************************************************************************)
(* _get_sectors step by step, on FAT contents drawn from bounded sets      *)
(***************************************************************************)
\* The largest cluster number _get_sectors is called with.
MaxStart == 4
\* The most FAT entries one call looks up before the model stops following it.
MaxChain == 5

\* The entry values drawn for clusters 2 and 3: unallocated, clusters 1..3,
\* a cluster beyond the table, 0x0FFFFFF8 and an end-of-chain mark.
EntryValues == {0, 1, 2, 3, 25, ChainLimit, EndOfChain}

InitChain ==
    /\ \E spc \in {1, 2}, e0 \in {ChainLimit, 0}, e1 \in {EndOfChain, 3},
          e2 \in EntryValues, e3 \in EntryValues :
          img = [id |-> 0, spc |-> spc, ents |-> <<e0, e1, e2, e3>>]
    /\ boot = parse_boot(file)
    /\ pc = "ready"
    /\ stack = <<>>
    /\ all_files = <<>>
    /\ printed = <<>>
    /\ err = ""
    /\ InitChainIdle

\* A variant of continues: the end-of-chain mark 0x0FFFFFFF is followed too.
continues_past_mark(ev) == ev <= EndOfChain

\* while entry_value <= 0x0FFFFFF8
continues(ev) == ev <= ChainLimit

\* The list after the first lookup: the range of number unless its entry is 0.
first_range(n, ev) == IF ev # 0 THEN cluster_sectors(n) ELSE <<>>

\* The call, its assert, and the lookup of the first entry.
ChainCall ==
    /\ cpc = "idle"
    /\ \E n \in 0..MaxStart :
          /\ number' = n
          /\ IF ~entry_check(n)
             THEN /\ cpc' = "raised"
                  /\ UNCHANGED <<entry_value, list_of_sectors, lookups>>
             ELSE /\ entry_value' = fat_entry(n * 4)
                  /\ lookups' = <<n * 4>>
                  /\ list_of_sectors' = first_range(n, entry_value')
                  /\ cpc' = IF entry_value' # 0 THEN "loop" ELSE "returned"
    /\ UNCHANGED <<img, boot, runVars, call>>

\* One iteration of the while loop: entry_value is followed as a cluster.
ChainStep ==
    /\ cpc = "loop"
    /\ continues(entry_value)
    /\ Len(lookups) < MaxChain
    /\ list_of_sectors' = list_of_sectors \o cluster_sectors(entry_value)
    /\ entry_value' = fat_entry(entry_value * 4)
    /\ lookups' = Append(lookups, entry_value * 4)
    /\ UNCHANGED <<img, boot, runVars, cpc, number, call>>

\* The loop ends: return list_of_sectors.
ChainReturn ==
    /\ cpc = "loop"
    /\ ~continues(entry_value)
    /\ cpc' = "returned"
    /\ UNCHANGED <<img, boot, runVars, number, entry_value, list_of_sectors, lookups, call>>

NextChain == ChainCall \/ ChainStep \/ ChainReturn

SpecChain == InitChain /\ [][NextChain]_vars

(***************************************************************************)
(* _retrieve_data and _get_content called once on a constructed Fat        *)
(***************************************************************************)
\* The largest cluster number the two functions are called with.
MaxCluster == 9

FileSizes == {0, 3, 5, 40, 64, 200}

InitCall ==
    /\ img \in {[id |-> i] : i \in 1..Len(Images)}
    /\ boot = parse_boot(file)
    /\ pc = "ready"
    /\ stack = <<>>
    /\ all_files = <<>>
    /\ printed = <<>>
    /\ err = ""
    /\ InitChainIdle

CallRetrieveData ==
    /\ call.fn = "none"
    /\ \E c \in 0..MaxCluster, flag \in BOOLEAN :
          call' = [fn |-> "_retrieve_data", cluster |-> c, ignore_unallocated |-> flag,
                   result |-> retrieve_data(c, flag)]
    /\ UNCHANGED <<img, boot, runVars, chainVars>>

CallGetContent ==
    /\ call.fn = "none"
    /\ \E c \in 0..MaxCluster, f \in FileSizes :
          call' = [fn |-> "_get_content", cluster |-> c, filesize |-> f,
                   result |-> get_content(c, f)]
    /\ UNCHANGED <<img, boot, runVars, chainVars>>

NextCall == CallRetrieveData \/ CallGetContent

SpecCall == InitCall /\ [][NextCall]_vars

(***************************************************************************)
(* Properties                                                              *)
(***************************************************************************)
\* The walk has returned: all_files is the output of parse_dir(root).
WalkReturned == pc \in {"print", "done"}

\* A record of a Directory entry that parse_dir recursed into.
IsSubdirRec(r) == r.entry_type = "dir" /\ r.name # "." /\ r.name # ".."

RECURSIVE Under(_, _, _)
\* The directory clusters of the subtree of the clusters cs in the list L:
\* cs, and the content clusters of the directory records found in them, n
\* levels down.
Under(L, cs, n) ==
    IF n = 0 THEN cs
    ELSE Under(L, cs \cup {L[k].content_cluster :
                              k \in {x \in 1..Len(L) : IsSubdirRec(L[x]) /\ L[x].dir_cluster \in cs}},
               n - 1)

\* The positions in L of the records produced by recursing from the record at i.
Recursed(L, i) ==
    {j \in 1..Len(L) : L[j].dir_cluster \in Under(L, {L[i].content_cluster}, Len(L))}

\* C1 as stated: in the output of the walk, the record of a Directory entry
\* named neither "." nor ".." comes before the records produced by recursing
\* into its content cluster (pre-order).
C1_PreOrder ==
    WalkReturned =>
        \A i \in 1..Len(all_files) :
            IsSubdirRec(all_files[i]) => \A j \in Recursed(all_files, i) : j > i

\* C1 amended: in the output of the walk, the records produced by recursing
\* into a Directory entry named neither "." nor ".." are the block that ends
\* immediately before the entry's own record (post-order), and the records of
\* one directory appear in the order of their entry numbers; so the recursed
\* records come after every earlier entry of the directory and before every
\* later one.
C1_PostOrder ==
    WalkReturned =>
        /\ \A i \in 1..Len(all_files) :
              IsSubdirRec(all_files[i]) =>
                  Recursed(all_files, i) =
                      (i - Cardinality(Recursed(all_files, i)))..(i - 1)
        /\ \A i, j \in 1..Len(all_files) :
              (i < j /\ all_files[i].dir_cluster = all_files[j].dir_cluster)
                  => all_files[i].entry_num < all_files[j].entry_num

\* A walk returned a tree with a directory whose recursion produced records,
\* one of them a directory with records of its own, and with a later entry in
\* the same directory.
C1_Witness ==
    /\ pc = "done"
    /\ \E i, j \in 1..Len(all_files) :
          /\ IsSubdirRec(all_files[i]) /\ IsSubdirRec(all_files[j])
          /\ j \in Recursed(all_files, i)
          /\ Recursed(all_files, j) # {}
          /\ i < Len(all_files)
          /\ all_files[i + 1].dir_cluster = all_files[i].dir_cluster

\* C2 as stated: every record produced by recursing from a Directory entry
\* named N found during walk(cluster, P) has parent P + "/" + N, at every depth.
C2_ParentPath ==
    WalkReturned =>
        \A i, j \in 1..Len(all_files) :
            (IsSubdirRec(all_files[i])
                /\ all_files[j].dir_cluster = all_files[i].content_cluster)
              => all_files[j].parent = all_files[i].parent \o "/" \o all_files[i].name

\* C3 as stated: _retrieve_data on a cluster whose FAT entry is 0 returns no
\* bytes when ignore_unallocated is false, and the raw bytes of the one cluster
\* at sector_of(cluster) when it is true.
C3_UnallocatedRead ==
    (call.fn = "_retrieve_data" /\ entry_check(call.cluster)
        /\ fat_entry(call.cluster * 4) = 0)
      => /\ call.result.k = "ok"
         /\ ~call.ignore_unallocated => call.result.v = <<>>
         /\ call.ignore_unallocated =>
              call.result.v = read_at(file, to_sector(call.cluster) * boot.bytes_per_sector,
                                      boot.bytes_per_sector * boot.sectors_per_cluster)

\* C4: an exception in the walk is caught nowhere and no directory-entry record
\* is printed: records are printed only after the outermost parse_dir returned
\* without an exception, they are the list it returned, in order, and a run
\* that ends normally has printed all of it.
C4_AllOrNothing ==
    /\ err # "" => pc = "error" /\ printed = <<>> /\ all_files = <<>>
    /\ pc \in {"new", "ready", "walk", "hang", "error"} => printed = <<>>
    /\ printed # <<>> =>
          /\ WalkReturned /\ stack = <<>> /\ err = ""
          /\ Len(printed) <= Len(all_files)
          /\ printed = SubSeq(all_files, 1, Len(printed))
    /\ pc = "done" => printed = all_files

\* A content cluster beyond the volume was decoded two calls below the root,
\* after the callers had collected records: the run ended in the error and
\* printed nothing.
C4_Witness ==
    /\ pc = "error"
    /\ err = "AssertionError"
    /\ Len(stack) >= 3
    /\ \E i \in 1..Len(stack) : stack[i].directory_entries # <<>>
    /\ printed = <<>>

\* C5 as stated: _get_content returns a slack exactly when the FAT chain of the
\* cluster is not empty; then the content is the first min(128, filesize) bytes
\* of the chain's buffer and the slack its bytes from filesize on, 32 at most;
\* otherwise the content is read at sector_of(cluster).
C5_SlackIffChain ==
    (call.fn = "_get_content" /\ call.result.k = "ok")
      => LET buffer == retrieve_data(call.cluster, TRUE).v
             n == Min(128, call.filesize)
         IN  IF fat_entry(call.cluster * 4) # 0
             THEN /\ call.result.v[2] # None
                  /\ call.result.v[1] = Slice(buffer, 0, n)
                  /\ call.result.v[2] = Some(Slice(buffer, call.filesize, call.filesize + 32))
             ELSE /\ call.result.v[2] = None
                  /\ call.result.v[1] =
                        read_at(file, to_sector(call.cluster) * boot.bytes_per_sector, n)

\* The FAT entry of cluster c as the data model reads it; -1 when the table
\* does not hold it.
EntryOf(c) ==
    IF pc # "new" /\ 4 * c + 4 <= Len(fat)
    THEN unpack(SubSeq(fat, 4 * c + 1, 4 * c + 4)) ELSE -1

RECURSIVE ChainOf(_, _)
\* The clusters c0, ..., c(k-1) of the chain that starts at c, each entry but
\* the last in 1..0x0FFFFFF8 and the last above it; <<>> when there is no such
\* chain (an entry of 0, an entry outside the table, a cycle).
ChainOf(c, seen) ==
    IF c \in seen \/ EntryOf(c) <= 0 THEN <<>>
    ELSE IF EntryOf(c) > ChainLimit THEN <<c>>
    ELSE LET rest == ChainOf(EntryOf(c), seen \cup {c})
         IN  IF rest = <<>> THEN <<>> ELSE <<c>> \o rest

\* The sector ranges of the clusters cs, concatenated.
RangesOf(cs) ==
    Flatten([i \in 1..Len(cs) |->
                [j \in 1..boot.sectors_per_cluster |->
                    (cs[i] - 2) * boot.sectors_per_cluster + boot.data_start + j - 1]])

NoRepeat(seq) == \A i, j \in 1..Len(seq) : i # j => seq[i] # seq[j]

\* C6: for a start cluster that passes the assert of _get_sectors and whose
\* chain is acyclic with k >= 1 clusters, the last entry above 0x0FFFFFF8,
\* _get_sectors does not raise, builds the ranges of the clusters in traversal
\* order, and returns exactly k * sectors_per_cluster sector numbers, none
\* repeated.
C6_ChainSectors ==
    (cpc # "idle" /\ entry_check(number) /\ ChainOf(number, {}) # <<>>)
      => LET cs == ChainOf(number, {})
             want == RangesOf(cs)
         IN  /\ cpc \in {"loop", "returned"}
             /\ Len(lookups) <= Len(cs)
             /\ list_of_sectors = SubSeq(want, 1, Len(lookups) * boot.sectors_per_cluster)
             /\ cpc = "returned" =>
                   /\ list_of_sectors = want
                   /\ Len(list_of_sectors) = Len(cs) * boot.sectors_per_cluster
                   /\ NoRepeat(list_of_sectors)

\* _get_sectors returned the sectors of a chain of three clusters.
C6_Witness ==
    /\ cpc = "returned"
    /\ Len(ChainOf(number, {})) = 3
    /\ Len(list_of_sectors) = 3 * boot.sectors_per_cluster
    /\ boot.sectors_per_cluster = 2

\* The raw 32 bytes of the entry a record was decoded from.
RawEntry(r) ==
    Slice(retrieve_data(r.dir_cluster, TRUE).v, 32 * r.entry_num, 32 * r.entry_num + 32)

\* C7 as stated: every record of entry type "dir" in the output, whatever its
\* name, has the key content_cluster, equal to (high16 << 16) | low16 of its
\* raw entry.
C7_DirHasContentCluster ==
    WalkReturned =>
        \A i \in 1..Len(all_files) :
            all_files[i].entry_type = "dir" =>
                /\ "content_cluster" \in DOMAIN all_files[i]
                /\ all_files[i].content_cluster =
                      unpack(Slice(RawEntry(all_files[i]), 20, 22)) * 65536
                          + unpack(Slice(RawEntry(all_files[i]), 26, 28))

\* C8 as stated: with total_sectors = 0 or sectors_per_fat = 0 in the boot
\* sector, parse_dir is never entered.
C8_NoWalkOnDegenerateGeometry ==
    (pc # "new" /\ (boot.total_sectors = 0 \/ boot.sectors_per_fat = 0))
      => pc \notin {"walk", "print", "done", "hang"} /\ stack = <<>>

\* Every FAT chain of a cluster from 2 on that passes the assert of
\* _get_sectors is empty or acyclic with its last entry above 0x0FFFFFF8.
ChainsEnd ==
    /\ pc # "new"
    /\ \A c \in 2..MaxCluster :
          (entry_check(c) /\ EntryOf(c) # 0) => ChainOf(c, {}) # <<>>

\* The raw bytes of a directory's chain, <<>> when the chain cannot be read.
DirBytes(c) ==
    IF retrieve_data(c, TRUE).k = "ok" THEN retrieve_data(c, TRUE).v ELSE <<>>

\* The innermost call has not scanned past the end of its directory's bytes.
\* Entry numbers change in the innermost call only, so the same holds for
\* every active call.
ScanWithinChain ==
    (pc \in {"walk", "error"} /\ stack # <<>>) =>
        32 * top.entry_num <= Len(DirBytes(top.cluster))

\* How far the walk has come: the entry numbers of the active calls, the
\* outermost call first.
Position(frames) == [i \in 1..Len(frames) |-> frames[i].entry_num]

\* Position q is ahead of position p in the lexicographic order: q extends p
\* (a call was made), or the two agree up to a call whose entry number is
\* larger in q; that call is the innermost of p or its caller.
Ahead(p, q) ==
    \/ Len(q) > Len(p) /\ SubSeq(q, 1, Len(p)) = p
    \/ \E i \in {Len(p) - 1, Len(p)} :
          /\ 1 <= i /\ i <= Len(q)
          /\ SubSeq(q, 1, i - 1) = SubSeq(p, 1, i - 1)
          /\ q[i] > p[i]

\* The step of the walk in this state: none of the loops stands still.  An
\* appended entry moves the scan on, a chain that ends is never waited for.
StepMoves ==
    (pc = "walk" /\ ChainsEnd) =>
        /\ scan(top).k \in {"append", "descend", "break", "raise"}
        /\ scan(top).k = "append" =>
              advance(top, scan(top).v).entry_num = top.entry_num + 1
        /\ scan(top).k = "break" => get_entry_type(RawEntry(
              [dir_cluster |-> top.cluster, entry_num |-> top.entry_num])[12]) = "0x0"

\* C9: with every FAT chain ending, the run finishes.  Each step of the walk
\* moves its position forward in the lexicographic order, the positions are
\* bounded (at most RecursionLimit calls, each within the bytes of its
\* directory's chain), a call returns only at a terminator entry, the walk
\* never waits for a chain, and printing moves through the list; a scan that
\* reaches the physical end of its chain without a terminator ends the walk in
\* an error.
C9_WalkTerminates ==
    /\ []StepMoves
    /\ []ScanWithinChain
    /\ [](ChainsEnd => pc # "hang")
    /\ [](Len(stack) <= RecursionLimit)
    /\ [][(pc = "walk" /\ pc' = "walk") => Ahead(Position(stack), Position(stack'))]_vars
    /\ [][(pc = "print" /\ pc' = "print") => Len(printed') = Len(printed) + 1]_vars

\* A root directory with no terminator entry was scanned to the end of its one
\* cluster and the walk ended in an IndexError.
C9_Witness ==
    /\ pc = "error"
    /\ err = "IndexError"
    /\ ChainsEnd
    /\ Len(stack) = 1
    /\ stack[1].entry_num > 0
    /\ 32 * stack[1].entry_num = Len(DirBytes(stack[1].cluster))

\* C10 as stated: every sector number _get_sectors collects lies in the data
\* region [data_start, data_end], and every FAT entry it looks up lies inside
\* the loaded table and is not the entry of cluster 0 or 1.
C10_ChainInBounds ==
    cpc \in {"loop", "returned"} =>
        /\ \A i \in 1..Len(list_of_sectors) :
              boot.data_start <= list_of_sectors[i] /\ list_of_sectors[i] <= boot.data_end
        /\ \A i \in 1..Len(lookups) : lookups[i] + 4 <= Len(fat)
        /\ \A i \in 2..Len(lookups) : lookups[i] >= 8

====
